---- MODULE Spec2Model ----
(***************************************************************************)
(* The FastAPI backend of the financial-literacy chatbot (src/backend.py): *)
(* the module-level client initialisation, the dependency check            *)
(* get_services, and the four endpoints chat, upload_multiple_documents,   *)
(* clear_all_documents and health_check, running over one Redis vector     *)
(* store.                                                                  *)
(*                                                                         *)
(* Requests are served by one asyncio event loop: a handler runs without   *)
(* interruption up to an await.  chat, clear_all_documents and             *)
(* health_check contain no await, so each is one action.                   *)
(* upload_multiple_documents awaits file.read() once per supported file,   *)
(* so it is one action from its entry to the first read (UploadBegin) and  *)
(* one action from the return of a read to the next read or to the         *)
(* response (UploadResume); other requests interleave at those points.     *)
(* The model follows NumReqs requests, at most MaxUploads of them          *)
(* ingestions of at most MaxFiles files each.                              *)
(*                                                                         *)
(* Representation.  A text is a sequence of paragraphs, each the size of   *)
(* one chunk; the paragraph " " is whitespace.  A float of the confidence  *)
(* computation is an integer number of 1/Unit.  A Python exception is a    *)
(* "raised" outcome of the call that throws it.  The fields user_id,       *)
(* category and uploadTimestamp take no part in any decision of the code   *)
(* and are left out of the records.                                        *)
(***************************************************************************)
EXTENDS Integers, Sequences, FiniteSets, TLC

VARIABLES
    vectorstore,    \* module global: the RedisVectorStore handle, or None
    chat_model,     \* module global: the Ollama chat model handle, or None
    redis_client,   \* module global: the direct Redis client, or None
    store,          \* the documents held by the Redis index, in insertion order
    store0,         \* history: the documents the index held when the process started
    schema,         \* vectorstore.schema
    served,         \* history: the number of responses sent so far
    req             \* the requests: their arguments, handler locals and response

vars == <<vectorstore, chat_model, redis_client, store, store0, schema, served, req>>

---------------------------------------------------------------------------
(* Bounds of the model *)

NumReqs == 3
MaxUploads == 2
MaxFiles == 2

Reqs == 1..NumReqs

---------------------------------------------------------------------------
(* Constants of the program *)

None == "None"

\* search_kwargs={"k": 3}
K == 3

\* the float 1.0, in units of 1/Unit (0.2 = Unit/5, 0.5 = Unit/2, 1/3 = Unit/3)
Unit == 30

ADMIN_KEY == "admin123"

NOTICE == "Need more help? Contact our customer service team"

PLACEHOLDER == "No specific context available."

SEPARATOR == "---"

PDF == "application/pdf"
DOCX == "application/vnd.openxmlformats-officedocument.wordprocessingml.document"
DOC == "application/msword"
XLSX == "application/vnd.openxmlformats-officedocument.spreadsheetml.sheet"
XLS == "application/vnd.ms-excel"

\* the keys of the parsers dictionary
parsers == {PDF, DOCX, DOC, XLSX, XLS}

---------------------------------------------------------------------------
(* Inputs *)

\* The uploaded files a request can carry.  contents stands for the bytes:
\* whether the parser can read them, and the text it extracts if so.
Files ==
    { [filename |-> "a.pdf", content_type |-> PDF,
       contents |-> [readable |-> TRUE, text |-> <<"a0", " ", "a1">>]],
      [filename |-> "b.docx", content_type |-> DOCX,
       contents |-> [readable |-> TRUE, text |-> <<"b0">>]],
      [filename |-> "blank.xlsx", content_type |-> XLSX,
       contents |-> [readable |-> TRUE, text |-> <<" ">>]],
      [filename |-> "bad.pdf", content_type |-> PDF,
       contents |-> [readable |-> FALSE, text |-> <<>>]],
      [filename |-> "notes.txt", content_type |-> "text/plain",
       contents |-> [readable |-> TRUE, text |-> <<"n0">>]] }

FileLists == UNION { [1..n -> Files] : n \in 0..MaxFiles }

AdminKeys == {ADMIN_KEY, "admin", ""}

\* Two queries, standing for two similarity orders of the stored documents.
Messages == {"oldest first", "newest first"}

\* What the chat model can answer.
Generations == { <<"answer">> }

\* What the Redis database can hold when the process starts: nothing, or the
\* documents an earlier run of the service stored.
Preloaded ==
    [k \in 1..4 |->
        [page_content |-> <<"o0", "o1", "o2", "o3">>[k],
         fileName |-> "old.pdf",
         fileType |-> PDF,
         chunkIndex |-> k - 1,
         totalChunks |-> 4]]

InitialStores == { <<>>, Preloaded }

---------------------------------------------------------------------------
(* Helpers *)

Min(a, b) == IF a <= b THEN a ELSE b

Reverse(s) == [i \in 1..Len(s) |-> s[Len(s) + 1 - i]]

---------------------------------------------------------------------------
(* The dependency check *)

\* Python's truth value of a client handle: None is false, a client is true.
Truthy(handle) == handle # None

\* Variant: the check lets every request through.
get_services_open(v, c, rc) == TRUE

\* get_services: TRUE when the services are returned, FALSE when it raises
\* HTTPException(503).
get_services(v, c, rc) == ~ (~Truthy(v) \/ ~Truthy(c) \/ ~Truthy(rc))

---------------------------------------------------------------------------
(* Document processing *)

\* parse_pdf, parse_docx, parse_xlsx: the extracted text, or an exception of
\* the parsing library on bytes it cannot read.
parser(contents) ==
    IF contents.readable
    THEN [raised |-> FALSE, text |-> contents.text]
    ELSE [raised |-> TRUE, text |-> <<>>]

\* str.isspace(): at least one character and all of them whitespace.
isspace(text) == text # <<>> /\ \A k \in 1..Len(text) : text[k] = " "

\* Variant: only the empty string counts as no text (isspace left out).
no_text_only_empty(text) == text = <<>>

\* not extracted_text or extracted_text.isspace()
no_text(text) == text = <<>> \/ isspace(text)

IsContent(p) == p # " "

\* text_splitter.split_text: the chunks of a text, whitespace stripped.
split_text(text) == SelectSeq(text, IsContent)

\* The LangChainDocument of chunk number k (from 1) of a file.
Document(file, chunks, k) ==
    [page_content |-> chunks[k],
     fileName |-> file.filename,
     fileType |-> file.content_type,
     chunkIndex |-> k - 1,
     totalChunks |-> Len(chunks)]

Locals0 == [total_chunks |-> 0, docs_processed |-> 0, all_langchain_docs |-> <<>>]

\* Variant: total_chunks counts one per file instead of len(chunks).
tag_and_count_one(l, file, chunks) ==
    [total_chunks |-> l.total_chunks + 1,
     docs_processed |-> l.docs_processed + 1,
     all_langchain_docs |-> l.all_langchain_docs \o
         [k \in 1..Len(chunks) |-> Document(file, chunks, k)]]

\* Steps 3 of the loop body: tag every chunk, append it, and count.
tag_and_count(l, file, chunks) ==
    [total_chunks |-> l.total_chunks + Len(chunks),
     docs_processed |-> l.docs_processed + 1,
     all_langchain_docs |-> l.all_langchain_docs \o
         [k \in 1..Len(chunks) |-> Document(file, chunks, k)]]

\* Variant: a file whose parsing raises is skipped instead of failing the
\* request.
process_file_skip_errors(l, file) ==
    LET parsed == parser(file.contents) IN
    IF parsed.raised \/ no_text(parsed.text)
    THEN [raised |-> FALSE, locals |-> l]
    ELSE [raised |-> FALSE,
          locals |-> tag_and_count(l, file, split_text(parsed.text))]

\* The try block of the loop body, for a file whose read has returned: the
\* locals after it, or the exception that the except clause turns into
\* HTTPException(500).
process_file(l, file) ==
    LET parsed == parser(file.contents) IN
    IF parsed.raised
    THEN [raised |-> TRUE, locals |-> l]
    ELSE IF no_text(parsed.text)
         THEN [raised |-> FALSE, locals |-> l]
         ELSE [raised |-> FALSE,
               locals |-> tag_and_count(l, file, split_text(parsed.text))]

\* The loop head: the index of the first file from i on whose content type
\* has a parser (the others are skipped with a warning), Len(files) + 1 if
\* there is none.
RECURSIVE next_supported(_, _)
next_supported(files, i) ==
    IF i > Len(files) THEN i
    ELSE IF files[i].content_type \in parsers THEN i
         ELSE next_supported(files, i + 1)

---------------------------------------------------------------------------
(* The vector store *)

\* Variant: a document whose content and metadata are already stored is not
\* stored again.
RECURSIVE Dedup(_, _)
Dedup(s, docs) ==
    IF docs = <<>> THEN s
    ELSE IF \E k \in 1..Len(s) : s[k] = Head(docs)
         THEN Dedup(s, Tail(docs))
         ELSE Dedup(Append(s, Head(docs)), Tail(docs))

add_documents_dedup(s, docs) == Dedup(s, docs)

\* vectorstore.add_documents: every document is stored under a fresh key.
add_documents(s, docs) == s \o docs

\* Variant: the flush deletes nothing.
flushdb_keep(s) == s

\* redis_client.flushdb(): the keys of the database are deleted.
flushdb(s) == <<>>

\* retriever.invoke with k results: the k stored documents nearest to the
\* query, nearest first.  The order is the embedding model's; each message
\* stands for one order.
similarity_search(s, message, k) ==
    IF message = "oldest first"
    THEN SubSeq(s, 1, Min(k, Len(s)))
    ELSE SubSeq(Reverse(s), 1, Min(k, Len(s)))

---------------------------------------------------------------------------
(* The chat computation *)

\* "\n---\n".join(doc_texts)
RECURSIVE join(_)
join(doc_texts) ==
    IF doc_texts = <<>> THEN <<>>
    ELSE IF Len(doc_texts) = 1 THEN doc_texts
         ELSE <<Head(doc_texts), SEPARATOR>> \o join(Tail(doc_texts))

\* Variant: the join is used as it is, the placeholder never substituted.
documents_context_joined(relevant_docs) ==
    join([k \in 1..Len(relevant_docs) |-> relevant_docs[k].page_content])

\* Step 2: the context given to the model.
documents_context(relevant_docs) ==
    LET doc_texts == [k \in 1..Len(relevant_docs) |-> relevant_docs[k].page_content]
        joined == join(doc_texts)
    IN IF joined = <<>> THEN <<PLACEHOLDER>> ELSE joined

\* Variant: len(relevant_docs) / 3 as an integer division.
confidence_score_floordiv(n) ==
    IF n = 0 THEN Unit \div 5
    ELSE Min(Unit, Unit \div 2 + ((n \div 3) * Unit) \div 2)

\* 0.2 if not relevant_docs else min(1.0, 0.5 + (len(relevant_docs) / 3.0 * 0.5))
confidence_score(n) ==
    IF n = 0 THEN Unit \div 5
    ELSE Min(Unit, Unit \div 2 + ((n * Unit) \div 3) \div 2)

\* Variant: the comparison the wrong way round.
suggest_ticket_inverted(confidence) == confidence > Unit \div 2

\* confidence_score < 0.5
suggest_ticket(confidence) == confidence < Unit \div 2

\* Variant: any non-empty key is accepted.
authorized_any(admin_key) == admin_key # ""

\* not (admin_key != "admin123")
authorized(admin_key) == admin_key = ADMIN_KEY

---------------------------------------------------------------------------
(* State *)

\* A request before it arrives.  The fields of one record hold the
\* arguments, the handler's locals, the calls it made to the store, and the
\* response, for whichever endpoint the request goes to.
NoRequest ==
    [kind |-> "none", pc |-> "idle", status |-> 0, began |-> 0, ended |-> 0,
     \* chat
     message |-> "", relevant_docs |-> <<>>, documents_context |-> <<>>,
     response |-> <<>>, confidence_score |-> 0, suggest_ticket |-> FALSE,
     \* upload_multiple_documents
     files |-> <<>>, reading |-> 0, total_chunks |-> 0, docs_processed |-> 0,
     all_langchain_docs |-> <<>>, add_documents_calls |-> 0,
     documents_processed |-> 0, total_chunks_created |-> 0,
     \* clear_all_documents
     admin_key |-> "", flushdb_calls |-> 0, check_index_schema_calls |-> 0]

\* The clients whose construction can fail in the module's try block.
Clients == {"embeddings", "chat_model", "vectorstore", "redis_client"}

\* The module body: the try block builds the clients in order; if any
\* constructor raises, the except clause sets all three globals to None.
\* The Redis database is not the program's: it holds what it held before.
Init ==
    /\ \E failed \in SUBSET Clients :
          IF failed = {}
          THEN /\ vectorstore = "RedisVectorStore"
               /\ chat_model = "OllamaLLM"
               /\ redis_client = "Redis"
          ELSE /\ vectorstore = None
               /\ chat_model = None
               /\ redis_client = None
    /\ store \in InitialStores
    /\ store0 = store
    /\ schema = "at startup"
    /\ served = 0
    /\ req = [r \in Reqs |-> NoRequest]

\* The response is sent: the request is finished with an HTTP status.
Respond(rec, status) ==
    [rec EXCEPT !.pc = "done", !.status = status, !.ended = served + 1]

Arrive(kind) == [NoRequest EXCEPT !.kind = kind, !.began = served]

\* The requests are numbered in the order of their arrival.
CanArrive(r) ==
    /\ req[r].pc = "idle"
    /\ \A q \in Reqs : q < r => req[q].pc # "idle"

ServicesUp == get_services(vectorstore, chat_model, redis_client)

---------------------------------------------------------------------------
(* GET /health *)

health_check(r) ==
    /\ CanArrive(r)
    /\ req' = [req EXCEPT ![r] = Respond(Arrive("health"), 200)]
    /\ served' = served + 1
    /\ UNCHANGED <<vectorstore, chat_model, redis_client, store, store0, schema>>

---------------------------------------------------------------------------
(* POST /api/v1/chatbot/chat *)

chat(r) ==
    /\ CanArrive(r)
    /\ \E message \in Messages :
        LET a == [Arrive("chat") EXCEPT !.message = message] IN
        IF ~ServicesUp
        THEN req' = [req EXCEPT ![r] = Respond(a, 503)]
        ELSE \/ \* retriever.invoke raises
                req' = [req EXCEPT ![r] = Respond(a, 500)]
             \/ LET relevant_docs == similarity_search(store, message, K)
                    context == documents_context(relevant_docs)
                    b == [a EXCEPT !.relevant_docs = relevant_docs,
                                   !.documents_context = context]
                IN \/ \* chain.invoke raises
                      req' = [req EXCEPT ![r] = Respond(b, 500)]
                   \/ \E response_text \in Generations :
                        LET confidence == confidence_score(Len(relevant_docs))
                            suggest == suggest_ticket(confidence)
                            text == IF suggest
                                    THEN response_text \o <<NOTICE>>
                                    ELSE response_text
                        IN req' = [req EXCEPT ![r] =
                                     Respond([b EXCEPT !.response = text,
                                                       !.confidence_score = confidence,
                                                       !.suggest_ticket = suggest],
                                             200)]
    /\ served' = served + 1
    /\ UNCHANGED <<vectorstore, chat_model, redis_client, store, store0, schema>>

---------------------------------------------------------------------------
(* DELETE /api/v1/chatbot/documents/clear-all *)

\* Variant: a failure of the schema check is swallowed and success returned.
after_check_index_schema_swallow(raised) == IF raised THEN 200 ELSE 200

\* Lines 305-313: the status after Redis.check_index_schema returned or
\* raised.  The except clause turns every exception into a 500; nothing is
\* put back into the store.
after_check_index_schema(raised) == IF raised THEN 500 ELSE 200

clear_all_documents(r) ==
    /\ CanArrive(r)
    /\ served' = served + 1
    /\ UNCHANGED <<vectorstore, chat_model, redis_client, store0>>
    /\ \E admin_key \in AdminKeys :
        LET a == [Arrive("clear") EXCEPT !.admin_key = admin_key] IN
        IF ~ServicesUp
        THEN /\ req' = [req EXCEPT ![r] = Respond(a, 503)]
             /\ UNCHANGED <<store, schema>>
        ELSE IF ~authorized(admin_key)
        THEN /\ req' = [req EXCEPT ![r] = Respond(a, 403)]
             /\ UNCHANGED <<store, schema>>
        ELSE LET b == [a EXCEPT !.flushdb_calls = 1] IN
             \/ \* redis_client.flushdb() raises before the server ran it
                /\ req' = [req EXCEPT ![r] = Respond(b, 500)]
                /\ UNCHANGED <<store, schema>>
             \/ \* redis_client.flushdb() raises after the server ran it
                /\ req' = [req EXCEPT ![r] = Respond(b, 500)]
                /\ store' = flushdb(store)
                /\ UNCHANGED schema
             \/ \* Redis.check_index_schema raises
                /\ req' = [req EXCEPT ![r] =
                             Respond([b EXCEPT !.check_index_schema_calls = 1],
                                     after_check_index_schema(TRUE))]
                /\ store' = flushdb(store)
                /\ UNCHANGED schema
             \/ /\ req' = [req EXCEPT ![r] =
                             Respond([b EXCEPT !.check_index_schema_calls = 1],
                                     after_check_index_schema(FALSE))]
                /\ store' = flushdb(store)
                /\ schema' = "rechecked"

---------------------------------------------------------------------------
(* POST /api/v1/chatbot/documents/upload-multiple *)

LocalsOf(rec) ==
    [total_chunks |-> rec.total_chunks,
     docs_processed |-> rec.docs_processed,
     all_langchain_docs |-> rec.all_langchain_docs]

WithLocals(rec, l) ==
    [rec EXCEPT !.total_chunks = l.total_chunks,
                !.docs_processed = l.docs_processed,
                !.all_langchain_docs = l.all_langchain_docs]

\* Variant: the exception of add_documents is swallowed.
after_add_documents_swallow(rec, raised) ==
    [rec EXCEPT !.status = 200,
                !.documents_processed = rec.docs_processed,
                !.total_chunks_created = rec.total_chunks]

\* What follows step 4: HTTPException(500) if add_documents raised, the
\* UploadResponse with the two counts otherwise.
after_add_documents(rec, raised) ==
    IF raised
    THEN [rec EXCEPT !.status = 500]
    ELSE [rec EXCEPT !.status = 200,
                     !.documents_processed = rec.docs_processed,
                     !.total_chunks_created = rec.total_chunks]

\* Step 4 and the return, once the loop has ended.  A call of add_documents
\* that raises may have stored any leading part of the batch: the documents
\* are written to Redis one key after another.
Commit(r, rec) ==
    /\ served' = served + 1
    /\ IF rec.all_langchain_docs = <<>>
       THEN /\ LET done == after_add_documents(rec, FALSE) IN
                 req' = [req EXCEPT ![r] = Respond(done, done.status)]
            /\ UNCHANGED store
       ELSE LET called == [rec EXCEPT !.add_documents_calls = @ + 1] IN
            \/ /\ store' = add_documents(store, rec.all_langchain_docs)
               /\ LET done == after_add_documents(called, FALSE) IN
                    req' = [req EXCEPT ![r] = Respond(done, done.status)]
            \/ \E n \in 0..Len(rec.all_langchain_docs) :
               /\ store' = store \o SubSeq(rec.all_langchain_docs, 1, n)
               /\ LET done == after_add_documents(called, TRUE) IN
                    req' = [req EXCEPT ![r] = Respond(done, done.status)]

\* The for loop from file number i on, with locals l: up to the next
\* await file.read(), or through step 4 to the response.
Continue(r, rec, l, i) ==
    LET j == next_supported(rec.files, i)
        at == [WithLocals(rec, l) EXCEPT !.reading = j]
    IN IF j <= Len(rec.files)
       THEN /\ req' = [req EXCEPT ![r] = [at EXCEPT !.pc = "reading"]]
            /\ UNCHANGED <<store, served>>
       ELSE Commit(r, at)

\* From the arrival of the request to the first await.
UploadBegin(r) ==
    /\ CanArrive(r)
    /\ Cardinality({q \in Reqs : req[q].kind = "upload"}) < MaxUploads
    /\ UNCHANGED <<vectorstore, chat_model, redis_client, store0, schema>>
    /\ \E files \in FileLists :
        LET a == [Arrive("upload") EXCEPT !.files = files] IN
        IF ~ServicesUp
        THEN /\ req' = [req EXCEPT ![r] = Respond(a, 503)]
             /\ served' = served + 1
             /\ UNCHANGED store
        ELSE IF files = <<>>
        THEN /\ req' = [req EXCEPT ![r] = Respond(a, 400)]
             /\ served' = served + 1
             /\ UNCHANGED store
        ELSE Continue(r, a, Locals0, 1)

\* From the return of file.read() to the next await or to the response.
UploadResume(r) ==
    /\ req[r].pc = "reading"
    /\ UNCHANGED <<vectorstore, chat_model, redis_client, store0, schema>>
    /\ LET rec == req[r]
           result == process_file(LocalsOf(rec), rec.files[rec.reading])
       IN IF result.raised
          THEN /\ req' = [req EXCEPT ![r] = Respond(rec, 500)]
               /\ served' = served + 1
               /\ UNCHANGED store
          ELSE Continue(r, rec, result.locals, rec.reading + 1)

---------------------------------------------------------------------------
(* The specification *)

Next ==
    \E r \in Reqs :
        \/ health_check(r)
        \/ chat(r)
        \/ clear_all_documents(r)
        \/ UploadBegin(r)
        \/ UploadResume(r)

Spec == Init /\ [][Next]_vars

---------------------------------------------------------------------------
(* Vocabulary of the claims *)

\* Every client was constructed when the process started.
ClientsUp == vectorstore # None /\ chat_model # None /\ redis_client # None

Done(r) == req[r].pc = "done"

ChatOK(r) == req[r].kind = "chat" /\ Done(r) /\ req[r].status = 200

ClearDone(r) == req[r].kind = "clear" /\ Done(r)

UploadDone(r) == req[r].kind = "upload" /\ Done(r)

UploadOK(r) == UploadDone(r) /\ req[r].status = 200

\* The request r is served by the step from the current state to the next.
Served(r) == req[r].pc # "done" /\ req'[r].pc = "done"

---------------------------------------------------------------------------
(* C1 *)

\* C1: every chat response computed from zero retrieved chunks has
\* confidence_score exactly 0.2 and suggest_ticket = true, and its text is
\* the text of the model followed by the human-escalation notice.
C1_ZeroChunks ==
    \A r \in Reqs :
        ChatOK(r) /\ Len(req[r].relevant_docs) = 0 =>
            /\ 5 * req[r].confidence_score = Unit
            /\ req[r].suggest_ticket = TRUE
            /\ \E text \in Generations : req[r].response = text \o <<NOTICE>>

\* A chat on an empty index has been answered.
C1_Witness ==
    \E r \in Reqs :
        /\ ChatOK(r)
        /\ req[r].relevant_docs = <<>>
        /\ Len(req[r].response) = 2

---------------------------------------------------------------------------
(* C2 *)

\* The score of n retrieved chunks: 1/5, 2/3, 5/6 and 1.
C2_ScoreIs(n, confidence) ==
    /\ n = 0 => 5 * confidence = Unit
    /\ n = 1 => 3 * confidence = 2 * Unit
    /\ n = 2 => 6 * confidence = 5 * Unit
    /\ n = 3 => confidence = Unit

\* C2: the confidence of a chat response is decided by the number n of
\* retrieved chunks alone, 0 <= n <= 3: 0.2 for n = 0, 2/3 for n = 1, 5/6
\* for n = 2 and 1.0 for n = 3; it lies in [0.2, 1.0], no response with
\* fewer chunks has a higher score, and for n >= 1 suggest_ticket is false
\* and the text is the model's text without the notice.
C2_ScoreByCount ==
    \A r \in Reqs :
        ChatOK(r) =>
            LET n == Len(req[r].relevant_docs) IN
            /\ n \in 0..3
            /\ C2_ScoreIs(n, req[r].confidence_score)
            /\ 5 * req[r].confidence_score >= Unit
            /\ req[r].confidence_score <= Unit
            /\ n >= 1 => /\ req[r].suggest_ticket = FALSE
                         /\ req[r].response \in Generations
            /\ \A q \in Reqs :
                  ChatOK(q) /\ Len(req[q].relevant_docs) <= n =>
                      req[q].confidence_score <= req[r].confidence_score

\* A chat that retrieved one chunk has been answered with score 2/3 and no
\* ticket suggestion.
C2_Witness ==
    \E r \in Reqs :
        /\ ChatOK(r)
        /\ Len(req[r].relevant_docs) = 1
        /\ 3 * req[r].confidence_score = 2 * Unit
        /\ ~req[r].suggest_ticket

---------------------------------------------------------------------------
(* C3 *)

WrongKey(r) == req[r].admin_key # ADMIN_KEY

\* C3 as stated: every clear_all called with an admin_key other than the
\* secret returns 403 and has called neither the flush nor the schema check.
C3_Original ==
    \A r \in Reqs :
        ClearDone(r) /\ WrongKey(r) =>
            /\ req[r].status = 403
            /\ req[r].flushdb_calls = 0
            /\ req[r].check_index_schema_calls = 0

\* C3, amended: a clear_all called with an admin_key other than the secret
\* returns 403 when the clients were initialised and 503 when they were
\* not; either way the step that serves it calls neither the flush nor the
\* schema check and leaves the documents of the index, the index schema and
\* the result of every retrieval as they were.
C3_WrongKeyNoEffect ==
    [][\A r \in Reqs :
          Served(r) /\ req'[r].kind = "clear" /\ req'[r].admin_key # ADMIN_KEY =>
              /\ req'[r].status = IF ClientsUp THEN 403 ELSE 503
              /\ req'[r].flushdb_calls = 0
              /\ req'[r].check_index_schema_calls = 0
              /\ store' = store
              /\ schema' = schema
              /\ \A message \in Messages :
                    similarity_search(store', message, K) =
                    similarity_search(store, message, K)]_vars

\* A clear_all with a wrong key has been refused with 403 while the index
\* holds documents.
C3_Witness ==
    \E r \in Reqs :
        /\ ClearDone(r)
        /\ WrongKey(r)
        /\ req[r].status = 403
        /\ store # <<>>

---------------------------------------------------------------------------
(* C4 *)

ClearOK(r) == ClearDone(r) /\ req[r].status = 200

\* The request u called add_documents after request k was served.
WroteAfter(u, k) ==
    /\ UploadDone(u)
    /\ req[u].add_documents_calls > 0
    /\ req[u].ended > req[k].ended

\* C4: once clear_all with the correct key has returned success, the index
\* holds no document until an ingestion next calls add_documents, and every
\* chat answered in that time, whatever was ingested before the clear,
\* retrieves zero chunks and so has confidence 0.2 and suggest_ticket = true.
C4_ClearEmpties ==
    \A k \in Reqs :
        ClearOK(k) =>
            /\ (\A u \in Reqs : ~WroteAfter(u, k)) => store = <<>>
            /\ \A c \in Reqs :
                  /\ ChatOK(c)
                  /\ req[c].ended > req[k].ended
                  /\ \A u \in Reqs :
                        WroteAfter(u, k) => req[u].ended > req[c].ended
                  => /\ req[c].relevant_docs = <<>>
                     /\ 5 * req[c].confidence_score = Unit
                     /\ req[c].suggest_ticket = TRUE

\* An ingestion stored its chunks, then the index was cleared with the
\* correct key, and a chat answered after that retrieved nothing.
C4_Witness ==
    \E u, k, c \in Reqs :
        /\ UploadOK(u)
        /\ req[u].total_chunks_created > 0
        /\ ClearOK(k)
        /\ ChatOK(c)
        /\ req[u].ended < req[k].ended
        /\ req[k].ended < req[c].ended
        /\ req[c].relevant_docs = <<>>

---------------------------------------------------------------------------
(* C5 *)

\* A file the loop body would turn into chunks: its content type has a
\* parser, its bytes can be read, and its text is not all whitespace.
Valid(file) ==
    /\ file.content_type \in parsers
    /\ file.contents.readable
    /\ \E k \in 1..Len(file.contents.text) : file.contents.text[k] # " "

\* A supported file whose parsing raises.
Corrupt(file) == file.content_type \in parsers /\ ~file.contents.readable

NoValidFile(files) == \A i \in 1..Len(files) : ~Valid(files[i])

\* C5 as stated, for a service whose clients were initialised: every
\* ingestion with no file that is both supported and of non-blank text, the
\* empty file list included, is answered with success, both counts 0, and
\* without a call of add_documents.
C5_Original ==
    \A r \in Reqs :
        UploadDone(r) /\ ClientsUp /\ NoValidFile(req[r].files) =>
            /\ req[r].status = 200
            /\ req[r].documents_processed = 0
            /\ req[r].total_chunks_created = 0
            /\ req[r].add_documents_calls = 0

\* C5, amended: an ingestion with no valid file never calls add_documents.
\* With at least one file, each of them unsupported or parsed without error
\* to blank text, it is answered with success and both counts 0.  With an
\* empty file list it is rejected with 400; with a supported file whose
\* parsing raises it fails with 500; with the clients not initialised, 503.
C5_NoValidFile ==
    \A r \in Reqs :
        UploadDone(r) /\ NoValidFile(req[r].files) =>
            LET files == req[r].files IN
            /\ req[r].add_documents_calls = 0
            /\ req[r].documents_processed = 0
            /\ req[r].total_chunks_created = 0
            /\ req[r].status =
                  IF ~ClientsUp THEN 503
                  ELSE IF Len(files) = 0 THEN 400
                  ELSE IF \E i \in 1..Len(files) : Corrupt(files[i]) THEN 500
                  ELSE 200

\* An ingestion of one blank and one unsupported file has been answered with
\* success.
C5_Witness ==
    \E r \in Reqs :
        /\ UploadDone(r)
        /\ req[r].status = 200
        /\ Len(req[r].files) = 2
        /\ NoValidFile(req[r].files)
        /\ \E i \in 1..2 : req[r].files[i].content_type \in parsers
        /\ \E i \in 1..2 : req[r].files[i].content_type \notin parsers

---------------------------------------------------------------------------
(* C6 *)

\* C6 as stated: when a client failed to initialise, every endpoint, health
\* included, answers 503.
C6_Original ==
    \A r \in Reqs : Done(r) /\ ~ClientsUp => req[r].status = 503

\* C6, amended: when a client failed to initialise, chat, upload-multiple
\* and clear-all answer 503 before any other work: no retrieval, no file
\* read, no key check, no call to the store, which stays as it was.  health
\* has no dependency check and still answers 200.
C6_FailFast ==
    \A r \in Reqs :
        Done(r) /\ ~ClientsUp =>
            /\ req[r].kind \in {"chat", "upload", "clear"} => req[r].status = 503
            /\ req[r].kind = "health" => req[r].status = 200
            /\ req[r].flushdb_calls = 0
            /\ req[r].check_index_schema_calls = 0
            /\ req[r].add_documents_calls = 0
            /\ req[r].reading = 0
            /\ req[r].documents_context = <<>>
            /\ store = store0
            /\ schema = "at startup"

\* With the clients not initialised, a clear_all with the correct key has
\* been answered 503 and the index still holds its documents.
C6_Witness ==
    \E r \in Reqs :
        /\ ~ClientsUp
        /\ ClearDone(r)
        /\ req[r].admin_key = ADMIN_KEY
        /\ req[r].status = 503
        /\ store # <<>>

---------------------------------------------------------------------------
(* C7 *)

\* The number of the first file of the batch whose parsing raises, 0 if
\* there is none.
FirstCorrupt(files) ==
    IF \E i \in 1..Len(files) : Corrupt(files[i])
    THEN CHOOSE i \in 1..Len(files) :
            /\ Corrupt(files[i])
            /\ \A j \in 1..(i - 1) : ~Corrupt(files[j])
    ELSE 0

\* C7: an ingestion whose batch holds a supported file that raises in
\* parsing fails as a whole with 500, without counts and without any call of
\* add_documents, whatever chunks the files before it had yielded; the loop
\* stops at that file, so the files after it are never read.  Until it gets
\* there the request has written nothing either.
C7_ParseErrorFatal ==
    \A r \in Reqs :
        /\ req[r].kind = "upload"
        /\ ClientsUp
        /\ FirstCorrupt(req[r].files) > 0
        => /\ req[r].add_documents_calls = 0
           /\ req[r].reading <= FirstCorrupt(req[r].files)
           /\ Done(r) => /\ req[r].status = 500
                         /\ req[r].reading = FirstCorrupt(req[r].files)
                         /\ req[r].documents_processed = 0
                         /\ req[r].total_chunks_created = 0

\* An ingestion has failed with 500 on its second file, after the first
\* file had yielded chunks, and the index holds what it held at the start.
C7_Witness ==
    \E r \in Reqs :
        /\ UploadDone(r)
        /\ req[r].status = 500
        /\ FirstCorrupt(req[r].files) = 2
        /\ Len(req[r].all_langchain_docs) > 0
        /\ req[r].add_documents_calls = 0
        /\ store = store0

---------------------------------------------------------------------------
(* C8 *)

\* No other request has written to the index or flushed it.
OnlyWriter(r) ==
    \A q \in Reqs \ {r} :
        req[q].add_documents_calls = 0 /\ req[q].flushdb_calls = 0

FailedUpsert(r) ==
    UploadDone(r) /\ req[r].add_documents_calls > 0 /\ req[r].status = 500

\* C8 as stated, where no other request touches the index: an ingestion
\* calls add_documents at most once, and if that call fails the index holds
\* none of the chunks of the batch.
C8_Original ==
    \A r \in Reqs :
        /\ req[r].add_documents_calls <= 1
        /\ FailedUpsert(r) /\ OnlyWriter(r) => store = store0

\* C8, amended: an ingestion calls add_documents at most once, and only
\* after the loop has gone through every file.  If the call fails the
\* request fails with 500 and no counts, and makes no further call: no
\* retry, no compensating write.  The index is then left with whatever the
\* failed call had stored, which may be a leading part of the batch; only a
\* success response tells that it holds the whole batch.
C8_SingleWrite ==
    \A r \in Reqs :
        LET docs == req[r].all_langchain_docs IN
        /\ req[r].add_documents_calls <= 1
        /\ req[r].pc = "reading" => req[r].add_documents_calls = 0
        /\ req[r].add_documents_calls = 1 =>
              /\ UploadDone(r)
              /\ req[r].reading = Len(req[r].files) + 1
              /\ req[r].status \in {200, 500}
        /\ FailedUpsert(r) =>
              /\ req[r].documents_processed = 0
              /\ req[r].total_chunks_created = 0
        /\ FailedUpsert(r) /\ OnlyWriter(r) =>
              \E n \in 0..Len(docs) : store = store0 \o SubSeq(docs, 1, n)
        /\ /\ UploadDone(r)
           /\ req[r].status = 200
           /\ req[r].add_documents_calls = 1
           /\ OnlyWriter(r)
           => store = store0 \o docs

\* An ingestion has failed with 500 in add_documents, and the index holds
\* the first chunk of its batch but not the last.
C8_Witness ==
    \E r \in Reqs :
        /\ FailedUpsert(r)
        /\ OnlyWriter(r)
        /\ \E n \in 1..(Len(req[r].all_langchain_docs) - 1) :
              store = store0 \o SubSeq(req[r].all_langchain_docs, 1, n)

---------------------------------------------------------------------------
(* C9 *)

\* What the request served e-th added to the index, if it was a successful
\* ingestion.
AddedBy(e) ==
    IF \E r \in Reqs : UploadOK(r) /\ req[r].ended = e
    THEN req[CHOOSE r \in Reqs : UploadOK(r) /\ req[r].ended = e].all_langchain_docs
    ELSE <<>>

RECURSIVE AddedUpTo(_)
AddedUpTo(e) == IF e = 0 THEN <<>> ELSE AddedUpTo(e - 1) \o AddedBy(e)

RECURSIVE SumCreated(_)
SumCreated(S) ==
    IF S = {} THEN 0
    ELSE LET r == CHOOSE x \in S : TRUE
         IN req[r].total_chunks_created + SumCreated(S \ {r})

\* C9: ingestion only adds.  As long as nothing has flushed the index and
\* no add_documents has failed, the index holds what it held at the start
\* followed by the whole batch of every successful ingestion, in the order
\* of their responses, however the requests were interleaved: nothing is
\* deduplicated or overwritten, a file ingested twice is there twice, and
\* the number of documents has grown by the sum of the total_chunks_created.
C9_OnlyAdds ==
    /\ \A r \in Reqs : req[r].flushdb_calls = 0
    /\ \A r \in Reqs : ~FailedUpsert(r)
    => /\ store = store0 \o AddedUpTo(served)
       /\ Len(store) = Len(store0) + SumCreated({r \in Reqs : UploadOK(r)})

\* Two ingestions of the same file have both succeeded, the second having
\* arrived while the first was awaiting its read, and the index holds the
\* chunks of the file twice.
C9_Witness ==
    \E r, q \in Reqs :
        /\ r # q
        /\ UploadOK(r) /\ UploadOK(q)
        /\ req[q].began < req[r].ended
        /\ req[r].began < req[q].ended
        /\ req[r].files = req[q].files
        /\ req[r].total_chunks_created = 2
        /\ store = store0 \o req[r].all_langchain_docs \o req[q].all_langchain_docs

---------------------------------------------------------------------------
(* C10 *)

\* The number of chunks of a file: its paragraphs that are not whitespace.
ChunksOf(file) ==
    Cardinality({k \in 1..Len(file.contents.text) : file.contents.text[k] # " "})

RECURSIVE SumChunks(_, _)
SumChunks(files, i) ==
    IF i = 0 THEN 0
    ELSE (IF Valid(files[i]) THEN ChunksOf(files[i]) ELSE 0) + SumChunks(files, i - 1)

\* C10: in every success response of an ingestion, documents_processed is
\* the number of files of the batch that are supported, parsed without error
\* and of non-blank text, the others having been skipped without failing the
\* request, and total_chunks_created is the sum of the chunk counts of those
\* files, which is the number of documents handed to the one add_documents
\* call (none is made for no documents).
C10_Counts ==
    \A r \in Reqs :
        UploadOK(r) =>
            LET files == req[r].files IN
            /\ req[r].documents_processed =
                  Cardinality({i \in 1..Len(files) : Valid(files[i])})
            /\ req[r].total_chunks_created = SumChunks(files, Len(files))
            /\ req[r].total_chunks_created = Len(req[r].all_langchain_docs)
            /\ req[r].add_documents_calls =
                  IF req[r].total_chunks_created > 0 THEN 1 ELSE 0

\* An ingestion of a two-chunk file and a skipped file has been answered
\* with documents_processed = 1 and total_chunks_created = 2.
C10_Witness ==
    \E r \in Reqs :
        /\ UploadOK(r)
        /\ Len(req[r].files) = 2
        /\ req[r].documents_processed = 1
        /\ req[r].total_chunks_created = 2
        /\ req[r].add_documents_calls = 1

---------------------------------------------------------------------------
(* C11 *)

\* The chat request r got as far as step 2: a context was built.
ContextBuilt(r) ==
    req[r].kind = "chat" /\ Done(r) /\ req[r].documents_context # <<>>

\* The context is texts[1], separator, texts[2], ..., separator, texts[n].
IsJoinOf(context, docs) ==
    /\ Len(context) = 2 * Len(docs) - 1
    /\ \A k \in 1..Len(docs) : context[2 * k - 1] = docs[k].page_content
    /\ \A k \in 1..(Len(docs) - 1) : context[2 * k] = SEPARATOR

\* C11: in chat the context given to the model is the placeholder exactly
\* when zero chunks were retrieved; with one chunk or more it is the texts
\* of the retrieved chunks, in their order, joined by the separator.  So a
\* chat response has confidence 0.2 and suggest_ticket = true exactly when
\* its context was the placeholder.
C11_PlaceholderIffEmpty ==
    \A r \in Reqs :
        /\ ContextBuilt(r) =>
              /\ req[r].documents_context = <<PLACEHOLDER>>
                    <=> Len(req[r].relevant_docs) = 0
              /\ Len(req[r].relevant_docs) >= 1 =>
                    IsJoinOf(req[r].documents_context, req[r].relevant_docs)
        /\ ChatOK(r) =>
              /\ ContextBuilt(r)
              /\ req[r].documents_context = <<PLACEHOLDER>>
                    <=> 5 * req[r].confidence_score = Unit
              /\ req[r].documents_context = <<PLACEHOLDER>>
                    <=> req[r].suggest_ticket

\* One chat was answered from the placeholder with confidence 0.2 and a
\* ticket suggestion, and another from the joined texts of two or more
\* chunks without one.
C11_Witness ==
    \E r, q \in Reqs :
        /\ ChatOK(r)
        /\ req[r].documents_context = <<PLACEHOLDER>>
        /\ req[r].relevant_docs = <<>>
        /\ req[r].suggest_ticket
        /\ ChatOK(q)
        /\ Len(req[q].relevant_docs) >= 2
        /\ Len(req[q].documents_context) = 2 * Len(req[q].relevant_docs) - 1
        /\ ~req[q].suggest_ticket

---------------------------------------------------------------------------
(* C12 *)

\* The step serves a clear_all request r that carries the correct key,
\* with the clients initialised.
ServedClearWithKey(r) ==
    /\ Served(r)
    /\ req'[r].kind = "clear"
    /\ req'[r].admin_key = ADMIN_KEY
    /\ ClientsUp

\* C12: clear_all with the correct key flushes the key-value namespace
\* first and re-initialises the index schema afterwards, and it is not
\* atomic.  The flush is always invoked; the schema check is invoked only
\* with the store already emptied; success is returned only when the schema
\* was re-initialised; when the schema check fails the caller receives an
\* internal error, the schema is the old one and the store is empty all the
\* same.  A failure response leaves the store either unchanged or emptied.
C12_FlushThenReinit ==
    [][\A r \in Reqs :
          ServedClearWithKey(r) =>
              /\ req'[r].flushdb_calls = 1
              /\ req'[r].status \in {200, 500}
              /\ store' \in {store, <<>>}
              /\ req'[r].check_index_schema_calls = 1 => store' = <<>>
              /\ req'[r].status = 200 =>
                    /\ req'[r].check_index_schema_calls = 1
                    /\ schema' = "rechecked"
                    /\ store' = <<>>
              /\ (req'[r].status = 500 /\ req'[r].check_index_schema_calls = 1) =>
                    /\ schema' = schema
                    /\ store' = <<>>]_vars

\* The only request served so far is a clear_all with the correct key whose
\* schema check failed: it was answered 500, and the store, which held
\* documents at the start, is empty.
C12_Witness ==
    \E r \in Reqs :
        /\ ClearDone(r)
        /\ req[r].admin_key = ADMIN_KEY
        /\ req[r].status = 500
        /\ req[r].flushdb_calls = 1
        /\ req[r].check_index_schema_calls = 1
        /\ schema = "at startup"
        /\ store0 # <<>>
        /\ store = <<>>
        /\ \A q \in Reqs \ {r} : req[q].pc = "idle"

====
